---- MODULE Spec2Model ----
(***************************************************************************)
(* A model of röda_dagar.py: class RödaDagar downloads one table of Swedish *)
(* public holidays per requested year, optionally drops the rows that fall  *)
(* on a weekend, derives the yyyymmdd start and end dates of an all-day     *)
(* event from each row and saves the events as the file röda_dagar.ics.     *)
(*                                                                         *)
(* Text is modelled by TLA+ strings (Len, SubSeq and \o act on them), a     *)
(* pandas Timestamp by its offset from 1970-01-01 counted in whole days     *)
(* (every Timestamp of the program is a midnight), a DataFrame by its       *)
(* column names and its sequence of rows. Strings are kept to ASCII: the    *)
(* letters å, ä and ö of the program's strings are written aa, ae and oe.   *)
(***************************************************************************)
EXTENDS Integers, Sequences, FiniteSets, TLC

(***************************************************************************)
(* Bounds of the model.                                                    *)
(***************************************************************************)
\* The longest list of years a run is given.
MaxYears == 2
\* The most rows the downloaded tables of one run hold together.
MaxRows == 2

(***************************************************************************)
(* Text helpers.                                                           *)
(***************************************************************************)
Digits == "0123456789"

Char(s, k) == SubSeq(s, k, k)

IsDigit(c) == \E k \in 1..10 : Char(Digits, k) = c

DigitVal(c) == CHOOSE k \in 0..9 : Char(Digits, k + 1) = c

AllDigits(s) == \A k \in 1..Len(s) : IsDigit(Char(s, k))

\* int(s) of a non-empty string of decimal digits.
RECURSIVE StrToNat(_)
StrToNat(s) ==
    IF Len(s) = 0 THEN 0
    ELSE 10 * StrToNat(SubSeq(s, 1, Len(s) - 1)) + DigitVal(Char(s, Len(s)))

\* str(n) of a natural number: its decimal digits, no padding.
RECURSIVE NatToStr(_)
NatToStr(n) ==
    IF n < 10 THEN Char(Digits, n + 1)
    ELSE NatToStr(n \div 10) \o Char(Digits, (n % 10) + 1)

\* n in decimal, zero-padded on the left to at least w characters.
RECURSIVE Pad(_, _)
Pad(n, w) ==
    IF w <= 1 THEN NatToStr(n)
    ELSE IF Len(NatToStr(n)) >= w THEN NatToStr(n)
    ELSE "0" \o Pad(n, w - 1)

\* The position of the first c in s at or after position k; 0 when none.
RECURSIVE Find(_, _, _)
Find(s, c, k) ==
    IF k > Len(s) THEN 0
    ELSE IF Char(s, k) = c THEN k
    ELSE Find(s, c, k + 1)

\* s.split(c): the fields of s that the character c separates.
RECURSIVE Split(_, _)
Split(s, c) ==
    LET p == Find(s, c, 1)
    IN  IF p = 0 THEN <<s>>
        ELSE <<SubSeq(s, 1, p - 1)>> \o Split(SubSeq(s, p + 1, Len(s)), c)

(***************************************************************************)
(* The proleptic Gregorian calendar of datetime64.                         *)
(***************************************************************************)
IsLeap(y) == (y % 4 = 0 /\ y % 100 # 0) \/ y % 400 = 0

DaysInMonth(y, m) ==
    IF m = 2 THEN (IF IsLeap(y) THEN 29 ELSE 28)
    ELSE IF m \in {4, 6, 9, 11} THEN 30
    ELSE 31

\* The Timestamp of the civil date y-m-d: days since 1970-01-01.
DaysFromCivil(y, m, d) ==
    LET yy  == IF m <= 2 THEN y - 1 ELSE y
        era == yy \div 400
        yoe == yy - era * 400
        mp  == IF m > 2 THEN m - 3 ELSE m + 9
        doy == (153 * mp + 2) \div 5 + d - 1
        doe == yoe * 365 + yoe \div 4 - yoe \div 100 + doy
    IN  era * 146097 + doe - 719468

\* The civil date <<y, m, d>> of a Timestamp.
CivilFromDays(z) ==
    LET zz  == z + 719468
        era == zz \div 146097
        doe == zz - era * 146097
        yoe == (doe - doe \div 1460 + doe \div 36524 - doe \div 146096) \div 365
        doy == doe - (365 * yoe + yoe \div 4 - yoe \div 100)
        mp  == (5 * doy + 2) \div 153
        d   == doy - (153 * mp + 2) \div 5 + 1
        m   == IF mp < 10 THEN mp + 3 ELSE mp - 9
        y   == yoe + era * 400
    IN  <<IF m <= 2 THEN y + 1 ELSE y, m, d>>

(***************************************************************************)
(* format_dates, per cell.                                                 *)
(***************************************************************************)
\* A field of one or two digits, as the directives %m and %d match it.
IsShortNumber(f) == Len(f) \in 1..2 /\ AllDigits(f)

\* Whether pd.to_datetime(s, format='%Y-%m-%d') accepts the string s: a
\* four-digit year, a month and a day of that month, separated by hyphens.
\* It raises ValueError on every other string.
DatumParses(s) ==
    LET f == Split(s, "-")
    IN  /\ Len(f) = 3
        /\ Len(f[1]) = 4 /\ AllDigits(f[1])
        /\ IsShortNumber(f[2]) /\ StrToNat(f[2]) \in 1..12
        /\ IsShortNumber(f[3])
        /\ StrToNat(f[3]) \in 1..DaysInMonth(StrToNat(f[1]), StrToNat(f[2]))

\* pd.to_datetime(s, format='%Y-%m-%d') of a string it accepts.
ToDatetime(s) ==
    LET f == Split(s, "-")
    IN  DaysFromCivil(StrToNat(f[1]), StrToNat(f[2]), StrToNat(f[3]))

\* pd.Timedelta('1d'), in days.
OneDay == 1

\* Timestamp.astype(str): 'YYYY-MM-DD'.
TimestampStr(t) ==
    LET c == CivilFromDays(t)
    IN  Pad(c[1], 4) \o "-" \o Pad(c[2], 2) \o "-" \o Pad(c[3], 2)

\* .replace('-', '', regex=True): every hyphen removed.
RECURSIVE RemoveHyphens(_)
RemoveHyphens(s) ==
    IF Len(s) = 0 THEN ""
    ELSE IF Char(s, 1) = "-" THEN RemoveHyphens(SubSeq(s, 2, Len(s)))
    ELSE Char(s, 1) \o RemoveHyphens(SubSeq(s, 2, Len(s)))

\* df['date_start'] of a Timestamp.
DateStart(t) == RemoveHyphens(TimestampStr(t))

\* A slip of line 64: the end date made by adding one to the number the
\* start date reads as, with no calendar arithmetic.
DateEndByDigits(t) == NatToStr(StrToNat(DateStart(t)) + 1)

\* df['date_end'] of a Timestamp.
DateEnd(t) == RemoveHyphens(TimestampStr(t + OneDay))

(***************************************************************************)
(* The remote site and the inputs of a run.                                *)
(***************************************************************************)
\* The years a run may ask for.
Years == {2023, 2024}

\* The lists of years a run may be given: any order, repeats allowed.
YearLists == UNION {[1..n -> Years] : n \in 0..MaxYears}

\* Rows the tables of the site are made of: a weekday row, a Saturday row
\* whose date is no date, and a Sunday row at the end of a month.
RowPool ==
    { [Veckodag |-> "Maandag", Datum |-> "2024-01-01", Namn |-> "Nyaarsdagen"],
      [Veckodag |-> "Loerdag", Datum |-> "not-a-date", Namn |-> "Trettondedag jul"],
      [Veckodag |-> "Soendag", Datum |-> "2024-03-31", Namn |-> "Paaskdagen"] }

\* The tables of at most n rows a page may hold.
Tables(n) == UNION {[1..k -> RowPool] : k \in 0..n}

TableColumns == {"Veckodag", "Datum", "Namn"}

\* What pd.read_html raises when it yields no table: the network is down
\* (URLError), the response is not a 200 (HTTPError), the page holds no
\* table (ValueError). line is the line of the program the traceback names.
FetchErrors ==
    { [exc |-> "URLError", line |-> 38,
       msg |-> "<urlopen error [Errno -2] Name or service not known>"],
      [exc |-> "HTTPError", line |-> 38, msg |-> "HTTP Error 404: Not Found"],
      [exc |-> "ValueError", line |-> 38, msg |-> "No tables found"] }

NoError == [exc |-> "", line |-> 0, msg |-> ""]

NoFile == [exists |-> FALSE, content |-> ""]

\* What röda_dagar.ics may be before the run: absent, or left by an
\* earlier run.
PriorFiles ==
    { NoFile,
      [exists |-> TRUE, content |-> "BEGIN:VCALENDAR\nVERSION:2.0\nEND:VCALENDAR"] }

(***************************************************************************)
(* The state of a run of RödaDagar(years, weekends).create_ics().          *)
(***************************************************************************)
VARIABLES
    years,      \* self.years
    weekends,   \* self.weekends
    pc,         \* the statement the run is at; "done", "aborted" at its end
    i,          \* download_dates: the position of `year` in self.years
    df,         \* the DataFrame df: [columns, rows]
    log,        \* the page requests and the pauses taken, in order
    fetched,    \* the tables the site returned, one per request answered
    events,     \* create_ics: the joined event blocks
    file,       \* röda_dagar.ics
    prior,      \* röda_dagar.ics as it was when the run began
    opens,      \* how many times the run opened röda_dagar.ics for writing
    err         \* the exception that ended the run

vars == <<years, weekends, pc, i, df, log, fetched, events, file, prior, opens, err>>

Init ==
    /\ years \in YearLists
    /\ weekends \in BOOLEAN
    /\ prior \in PriorFiles
    /\ file = prior
    /\ pc = "download"
    /\ i = 1
    /\ df = [columns |-> {}, rows |-> <<>>]
    /\ log = <<>>
    /\ fetched = <<>>
    /\ events = ""
    /\ opens = 0
    /\ err = NoError

\* An uncaught exception e ends the run.
Raise(e) ==
    /\ pc' = "aborted"
    /\ err' = e

(***************************************************************************)
(* download_dates                                                          *)
(***************************************************************************)
url == "https://www.kalender.se/helgdagar/"

\* year_url = url + str(year)
YearUrl(year) == url \o NatToStr(year)

\* A slip of line 39: the rows already in df are not appended again.
DfAppendNew(d, table) ==
    [columns |-> d.columns \cup TableColumns,
     rows    |-> d.rows \o SelectSeq(table,
                     LAMBDA r : \A k \in 1..Len(d.rows) : d.rows[k] # r)]

\* df.append(table): the rows of table after the rows of df.
DfAppend(d, table) ==
    [columns |-> d.columns \cup TableColumns, rows |-> d.rows \o table]

\* The seconds time.sleep pauses after each request.
SleepSeconds == 5

\* Lines 36-39: the page of the next year is requested, its first table
\* is appended to df.
Request ==
    /\ pc = "download"
    /\ i <= Len(years)
    /\ \E table \in Tables(MaxRows - Len(df.rows)) :
        /\ df' = DfAppend(df, table)
        /\ fetched' = fetched \o <<table>>
    /\ log' = log \o <<[op |-> "GET", arg |-> YearUrl(years[i])]>>
    /\ pc' = "sleep"
    /\ UNCHANGED <<years, weekends, i, events, file, prior, opens, err>>

\* A slip of lines 36-40: the failure of a request is caught and the loop
\* goes on to the next year.
RequestFailureSkipped ==
    /\ pc = "download"
    /\ i <= Len(years)
    /\ log' = log \o <<[op |-> "GET", arg |-> YearUrl(years[i])]>>
    /\ pc' = "sleep"
    /\ UNCHANGED <<years, weekends, i, df, fetched, events, file, prior, opens, err>>

\* Line 38 raises: pd.read_html got no table for the year. Nothing in
\* download_dates, format_dates or create_ics catches it.
RequestFails ==
    /\ pc = "download"
    /\ i <= Len(years)
    /\ \E e \in FetchErrors : Raise(e)
    /\ log' = log \o <<[op |-> "GET", arg |-> YearUrl(years[i])]>>
    /\ UNCHANGED <<years, weekends, i, df, fetched, events, file, prior, opens>>

\* A slip of line 40: no pause is taken between two requests.
NoSleep ==
    /\ pc = "sleep"
    /\ i' = i + 1
    /\ pc' = "download"
    /\ UNCHANGED <<years, weekends, df, log, fetched, events, file, prior, opens, err>>

\* Line 40: time.sleep(5), then the loop moves to the next year.
Sleep ==
    /\ pc = "sleep"
    /\ log' = log \o <<[op |-> "sleep", arg |-> SleepSeconds]>>
    /\ i' = i + 1
    /\ pc' = "download"
    /\ UNCHANGED <<years, weekends, df, fetched, events, file, prior, opens, err>>

\* Line 42: the loop is over, download_dates returns df to format_dates.
DownloadReturn ==
    /\ pc = "download"
    /\ i > Len(years)
    /\ pc' = "filter"
    /\ UNCHANGED <<years, weekends, i, df, log, fetched, events, file, prior, opens, err>>

(***************************************************************************)
(* format_dates                                                            *)
(***************************************************************************)
\* The labels line 60 tests df['Veckodag'] against.
WeekendLabels == {"Loerdag", "Soendag"}

\* A slip of line 60: only the Saturday rows are dropped.
DropSaturdays(rows) == SelectSeq(rows, LAMBDA r : r.Veckodag # "Loerdag")

\* df[~df['Veckodag'].isin(['Lördag', 'Söndag'])]
DropWeekends(rows) == SelectSeq(rows, LAMBDA r : r.Veckodag \notin WeekendLabels)

\* df[column] of a DataFrame that has no such column.
KeyError(column, line) == [exc |-> "KeyError", line |-> line, msg |-> column]

\* Lines 59-60: the weekend rows are dropped when weekends is False.
FilterWeekends ==
    /\ pc = "filter"
    /\ weekends \/ "Veckodag" \in df.columns
    /\ df' = IF weekends THEN df ELSE [df EXCEPT !.rows = DropWeekends(df.rows)]
    /\ pc' = "convert"
    /\ UNCHANGED <<years, weekends, i, log, fetched, events, file, prior, opens, err>>

\* Line 60 raises: the DataFrame of an empty list of years has no column
\* 'Veckodag'.
FilterKeyError ==
    /\ pc = "filter"
    /\ ~weekends
    /\ "Veckodag" \notin df.columns
    /\ Raise(KeyError("Veckodag", 60))
    /\ UNCHANGED <<years, weekends, i, df, log, fetched, events, file, prior, opens>>

\* Lines 62-66 on one row: Datum becomes a Timestamp, date_start and
\* date_end are added.
FormatRow(r) ==
    [Veckodag   |-> r.Veckodag,
     Namn       |-> r.Namn,
     Datum      |-> ToDatetime(r.Datum),
     date_start |-> DateStart(ToDatetime(r.Datum)),
     date_end   |-> DateEnd(ToDatetime(r.Datum))]

AllDatesParse(rows) == \A k \in 1..Len(rows) : DatumParses(rows[k].Datum)

\* Lines 62-67: every date parses, the three columns are set and
\* format_dates returns df to create_ics.
ConvertDates ==
    /\ pc = "convert"
    /\ "Datum" \in df.columns
    /\ AllDatesParse(df.rows)
    /\ df' = [columns |-> df.columns \cup {"date_start", "date_end"},
              rows    |-> [k \in 1..Len(df.rows) |-> FormatRow(df.rows[k])]]
    /\ pc' = "render"
    /\ UNCHANGED <<years, weekends, i, log, fetched, events, file, prior, opens, err>>

\* Line 62 raises: the DataFrame of an empty list of years has no column
\* 'Datum'.
ConvertKeyError ==
    /\ pc = "convert"
    /\ "Datum" \notin df.columns
    /\ Raise(KeyError("Datum", 62))
    /\ UNCHANGED <<years, weekends, i, df, log, fetched, events, file, prior, opens>>

\* A slip of line 62: the rows whose date is no date are left out
\* (errors='coerce' and a dropna) and the run goes on.
ConvertSkipsBadDates ==
    /\ pc = "convert"
    /\ "Datum" \in df.columns
    /\ ~AllDatesParse(df.rows)
    /\ df' = [columns |-> df.columns \cup {"date_start", "date_end"},
              rows    |-> LET good == SelectSeq(df.rows,
                                          LAMBDA r : DatumParses(r.Datum))
                          IN  [k \in 1..Len(good) |-> FormatRow(good[k])]]
    /\ pc' = "render"
    /\ UNCHANGED <<years, weekends, i, log, fetched, events, file, prior, opens, err>>

\* Line 62 raises: pd.to_datetime meets a string that is no date.
ConvertValueError ==
    /\ pc = "convert"
    /\ "Datum" \in df.columns
    /\ \E k \in 1..Len(df.rows) :
        /\ ~DatumParses(df.rows[k].Datum)
        /\ \A j \in 1..(k - 1) : DatumParses(df.rows[j].Datum)
        /\ Raise([exc |-> "ValueError", line |-> 62,
                  msg |-> "time data '" \o df.rows[k].Datum
                          \o "' does not match format '%Y-%m-%d'"])
    /\ UNCHANGED <<years, weekends, i, df, log, fetched, events, file, prior, opens>>

(***************************************************************************)
(* create_ics                                                              *)
(***************************************************************************)
\* calendar_template.format(e)
CalendarText(e) ==
    "BEGIN:VCALENDAR\n" \o "VERSION:2.0\n" \o e \o "END:VCALENDAR"

\* event_template.format(start, end, summary)
EventText(start, end, summary) ==
    "BEGIN:VEVENT\n" \o "DTSTART:" \o start \o "\n" \o "DTEND:" \o end \o "\n"
    \o "SUMMARY:" \o summary \o "\n" \o "END:VEVENT\n"

\* "".join(parts)
RECURSIVE Join(_)
Join(parts) ==
    IF Len(parts) = 0 THEN "" ELSE Head(parts) \o Join(Tail(parts))

\* Lines 89-98: one event per row, in row order, joined with nothing
\* between them.
EventsOf(rows) ==
    Join([k \in 1..Len(rows) |->
            EventText(rows[k].date_start, rows[k].date_end, rows[k].Namn)])

Render ==
    /\ pc = "render"
    /\ events' = EventsOf(df.rows)
    /\ pc' = "open"
    /\ UNCHANGED <<years, weekends, i, df, log, fetched, file, prior, opens, err>>

\* A slip of line 100: the file is opened to append (mode 'a').
OpenFileToAppend ==
    /\ pc = "open"
    /\ file' = [exists |-> TRUE, content |-> file.content]
    /\ opens' = opens + 1
    /\ pc' = "write"
    /\ UNCHANGED <<years, weekends, i, df, log, fetched, events, prior, err>>

\* A slip of create_ics: the file is opened before the data is gathered.
OpenFileFirst ==
    /\ pc = "download"
    /\ opens = 0
    /\ file' = [exists |-> TRUE, content |-> ""]
    /\ opens' = opens + 1
    /\ UNCHANGED <<years, weekends, pc, i, df, log, fetched, events, prior, err>>

\* Line 100: open('röda_dagar.ics', 'w') creates the file or empties it.
OpenFile ==
    /\ pc = "open"
    /\ file' = [exists |-> TRUE, content |-> ""]
    /\ opens' = opens + 1
    /\ pc' = "write"
    /\ UNCHANGED <<years, weekends, i, df, log, fetched, events, prior, err>>

\* Line 100 raises: the file may not be written (it is read-only, or the
\* directory is); it is left as it was.
OpenFails ==
    /\ pc = "open"
    /\ Raise([exc |-> "PermissionError", line |-> 100,
              msg |-> "[Errno 13] Permission denied: 'roeda_dagar.ics'"])
    /\ UNCHANGED <<years, weekends, i, df, log, fetched, events, file, prior, opens>>

\* Line 101 and the end of the with block: the document is written and the
\* file closed.
WriteFile ==
    /\ pc = "write"
    /\ file' = [exists |-> TRUE, content |-> file.content \o CalendarText(events)]
    /\ pc' = "done"
    /\ UNCHANGED <<years, weekends, i, df, log, fetched, events, prior, opens, err>>

Next ==
    \/ Request
    \/ RequestFails
    \/ Sleep
    \/ DownloadReturn
    \/ FilterWeekends
    \/ FilterKeyError
    \/ ConvertDates
    \/ ConvertKeyError
    \/ ConvertValueError
    \/ Render
    \/ OpenFile
    \/ OpenFails
    \/ WriteFile

Spec == Init /\ [][Next]_vars

(***************************************************************************)
(* format_dates over the dates of the supported range: the run has         *)
(* downloaded the table of one year, a single row, and kept it; the row's  *)
(* date is a year-month-day of any year and month of the range, a date or  *)
(* not: February 30 is among them.                                         *)
(***************************************************************************)
\* The years the site has red days for.
FirstYear == 1900
LastYear == 2100

\* The days of the month tried: the first, one in the middle, and the days
\* on which some month ends or has ended.
DateDays == {1, 15} \cup (27..31)

DateRow(y, m, d) ==
    [Veckodag |-> "Maandag",
     Datum    |-> Pad(y, 4) \o "-" \o Pad(m, 2) \o "-" \o Pad(d, 2),
     Namn     |-> "Nyaarsdagen"]

InitDates ==
    \E y \in FirstYear..LastYear, m \in 1..12, d \in DateDays :
        /\ years = <<y>>
        /\ weekends = TRUE
        /\ prior = NoFile
        /\ file = prior
        /\ pc = "convert"
        /\ i = 2
        /\ df = DfAppend([columns |-> {}, rows |-> <<>>], <<DateRow(y, m, d)>>)
        /\ log = <<[op |-> "GET", arg |-> YearUrl(y)],
                   [op |-> "sleep", arg |-> SleepSeconds]>>
        /\ fetched = <<<<DateRow(y, m, d)>>>>
        /\ events = ""
        /\ opens = 0
        /\ err = NoError

NextDates ==
    \/ ConvertDates
    \/ ConvertValueError

SpecDates == InitDates /\ [][NextDates]_vars

(***************************************************************************)
(* Definitions the properties are stated with.                             *)
(***************************************************************************)
\* The rows of a sequence of tables, table after table.
RECURSIVE Flatten(_)
Flatten(tables) ==
    IF Len(tables) = 0 THEN <<>> ELSE Head(tables) \o Flatten(Tail(tables))

\* The rows the run has been given so far, in the order it was given them.
Downloaded == Flatten(fetched)

\* The rows of a table that are not Saturday or Sunday rows, in its order.
RECURSIVE Weekdays(_)
Weekdays(rows) ==
    IF Len(rows) = 0 THEN <<>>
    ELSE IF Head(rows).Veckodag = "Loerdag" \/ Head(rows).Veckodag = "Soendag"
         THEN Weekdays(Tail(rows))
    ELSE <<Head(rows)>> \o Weekdays(Tail(rows))

\* The rows format_dates is to output for what was downloaded.
Expected == IF weekends THEN Downloaded ELSE Weekdays(Downloaded)

\* The weekday label and the name of each row.
LabelsAndNames(rows) ==
    [k \in 1..Len(rows) |-> <<rows[k].Veckodag, rows[k].Namn>>]

\* The run is past line 60: the rows have been filtered.
PastFilter ==
    \/ pc \in {"convert", "render", "open", "write", "done"}
    \/ pc = "aborted" /\ err.line \in {62, 100}

\* The run is past line 66: format_dates has its output.
PastConvert ==
    \/ pc \in {"render", "open", "write", "done"}
    \/ pc = "aborted" /\ err.line = 100

\* The day after the civil date y-m-d, by the rules of the calendar.
NextDay(y, m, d) ==
    IF d < DaysInMonth(y, m) THEN <<y, m, d + 1>>
    ELSE IF m < 12 THEN <<y, m + 1, 1>>
    ELSE <<y + 1, 1, 1>>

\* The civil date a string of eight digits yyyymmdd renders.
DateOf(s) ==
    <<StrToNat(SubSeq(s, 1, 4)), StrToNat(SubSeq(s, 5, 6)), StrToNat(SubSeq(s, 7, 8))>>

IsYmd(s) ==
    /\ Len(s) = 8
    /\ AllDigits(s)
    /\ DateOf(s)[2] \in 1..12
    /\ DateOf(s)[3] \in 1..DaysInMonth(DateOf(s)[1], DateOf(s)[2])

\* Whether s holds sub.
Contains(s, sub) ==
    \E k \in 1..(Len(s) - Len(sub) + 1) : SubSeq(s, k, k + Len(sub) - 1) = sub

\* The lines of a text that begin with prefix, without the prefix.
LinesWith(text, prefix) ==
    LET lines == SelectSeq(Split(text, "\n"),
                           LAMBDA l : SubSeq(l, 1, Len(prefix)) = prefix)
    IN  [k \in 1..Len(lines) |-> SubSeq(lines[k], Len(prefix) + 1, Len(lines[k]))]

\* The page requests of the log.
Gets == SelectSeq(log, LAMBDA e : e.op = "GET")

(***************************************************************************)
(* C1: every row format_dates outputs has as date_end the yyyymmdd         *)
(* rendering of the calendar day that follows the day date_start renders,  *)
(* and date_start renders the row's date; month ends, 31 December and 28   *)
(* February of leap and other years included.                              *)
(***************************************************************************)
EndDateIsNextDay ==
    PastConvert =>
        /\ Len(df.rows) = Len(Expected)
        /\ \A k \in 1..Len(df.rows) :
            LET r == df.rows[k]
                s == DateOf(r.date_start)
            IN  /\ IsYmd(r.date_start)
                /\ IsYmd(r.date_end)
                /\ DateOf(r.date_end) = NextDay(s[1], s[2], s[3])
                /\ <<Pad(s[1], 4), Pad(s[2], 2), Pad(s[3], 2)>>
                       = Split(Expected[k].Datum, "-")

\* 28 February 2024 has been given the end date 29 February 2024.
EndDateWitness ==
    /\ pc = "render"
    /\ Len(df.rows) = 1
    /\ df.rows[1].date_start = "20240228"
    /\ df.rows[1].date_end = "20240229"

(***************************************************************************)
(* C2: with weekends False format_dates outputs exactly the rows whose     *)
(* label is neither 'Lördag' nor 'Söndag', in their order, and with        *)
(* weekends True every row; so the output without weekends is never longer *)
(* than the one with them, and no row of another label is removed.         *)
(***************************************************************************)
WeekendFilterExact ==
    /\ pc = "convert" => df.rows = Expected
    /\ PastFilter =>
        /\ LabelsAndNames(df.rows) = LabelsAndNames(Expected)
        /\ Len(df.rows) <= Len(Downloaded)
        /\ weekends => Len(df.rows) = Len(Downloaded)
        /\ \A k \in 1..Len(Downloaded) :
            Downloaded[k].Veckodag \notin {"Loerdag", "Soendag"} =>
                \E j \in 1..Len(df.rows) :
                    /\ df.rows[j].Veckodag = Downloaded[k].Veckodag
                    /\ df.rows[j].Namn = Downloaded[k].Namn
        /\ ~weekends =>
            \A j \in 1..Len(df.rows) :
                df.rows[j].Veckodag \notin {"Loerdag", "Soendag"}

\* Without weekends, a Saturday row and a Sunday row were downloaded and
\* both are gone.
WeekendFilterWitness ==
    /\ pc = "convert"
    /\ ~weekends
    /\ Len(Downloaded) = 2
    /\ Downloaded[1].Veckodag = "Loerdag"
    /\ Downloaded[2].Veckodag = "Soendag"
    /\ df.rows = <<>>

(***************************************************************************)
(* C3: the events of the written document are, in order, the rows of the   *)
(* table of each year in the order of the years list, each table in the    *)
(* order the site gave it, less only the weekend rows when weekends is     *)
(* False: nothing is reordered or deduplicated, a year listed k times      *)
(* gives its rows k times.                                                 *)
(***************************************************************************)
OrderPreserved ==
    /\ pc \in {"download", "sleep", "filter"} => df.rows = Downloaded
    /\ pc \in {"filter", "convert", "render", "open", "write", "done"} =>
        Len(fetched) = Len(years)
    /\ pc = "done" =>
        /\ LinesWith(file.content, "SUMMARY:")
               = [k \in 1..Len(Expected) |-> Expected[k].Namn]
        /\ LinesWith(file.content, "DTSTART:")
               = [k \in 1..Len(Expected) |-> RemoveHyphens(Expected[k].Datum)]

\* The same year was asked for twice, the site gave the same row both
\* times, and the document holds it twice.
OrderWitness ==
    /\ pc = "done"
    /\ Len(years) = 2
    /\ years[1] = years[2]
    /\ Len(fetched) = 2
    /\ fetched[1] = fetched[2]
    /\ Len(fetched[1]) = 1
    /\ LinesWith(file.content, "SUMMARY:") = <<"Nyaarsdagen", "Nyaarsdagen">>

(***************************************************************************)
(* C4: after a successful run röda_dagar.ics holds exactly the calendar    *)
(* header, then one event block per output row of format_dates, in row     *)
(* order with nothing between the blocks, each with its row's start date,  *)
(* end date and unmodified name, then END:VCALENDAR with no newline after  *)
(* it; what the file held before is gone.                                  *)
(***************************************************************************)
RECURSIVE Blocks(_)
Blocks(rows) ==
    IF Len(rows) = 0 THEN ""
    ELSE "BEGIN:VEVENT\nDTSTART:" \o Head(rows).date_start
         \o "\nDTEND:" \o Head(rows).date_end
         \o "\nSUMMARY:" \o Head(rows).Namn
         \o "\nEND:VEVENT\n" \o Blocks(Tail(rows))

DocumentExact ==
    pc = "done" =>
        /\ file.exists
        /\ file.content
               = "BEGIN:VCALENDAR\nVERSION:2.0\n" \o Blocks(df.rows) \o "END:VCALENDAR"
        /\ Len(SelectSeq(Split(file.content, "\n"), LAMBDA l : l = "BEGIN:VEVENT"))
               = Len(df.rows)
        /\ Len(df.rows) = Len(Expected)
        /\ \A k \in 1..Len(df.rows) : df.rows[k].Namn = Expected[k].Namn

\* A run over an older röda_dagar.ics has ended with a document of two
\* events.
DocumentWitness ==
    /\ pc = "done"
    /\ prior.exists
    /\ Len(df.rows) = 2
    /\ file.content # prior.content

(***************************************************************************)
(* C5: a run opens röda_dagar.ics at most once, and only after the page of *)
(* every year of the list has been fetched and every row filtered and      *)
(* given its dates; until then the file is as it was before the run.       *)
(***************************************************************************)
WrittenOnceAtTheEnd ==
    /\ opens <= 1
    /\ opens = 0 => file = prior
    /\ pc \notin {"write", "done"} => file = prior
    /\ opens = 1 =>
        /\ pc \in {"write", "done"}
        /\ i = Len(years) + 1
        /\ Len(fetched) = Len(years)
        /\ Len(Gets) = Len(years)
        /\ {"date_start", "date_end"} \subseteq df.columns
        /\ Len(df.rows) = Len(Expected)
        /\ \A k \in 1..Len(df.rows) :
            /\ IsYmd(df.rows[k].date_start)
            /\ IsYmd(df.rows[k].date_end)

\* The file has been opened, after two years were fetched.
WrittenOnceWitness ==
    /\ pc = "write"
    /\ opens = 1
    /\ Len(years) = 2
    /\ Len(df.rows) = 2
    /\ file # prior

(***************************************************************************)
(* C6: when the fetch of a year fails the run aborts with that error: no   *)
(* later year is requested, nothing of the rows fetched so far is emitted  *)
(* and röda_dagar.ics is neither created nor modified.                     *)
(***************************************************************************)
FetchFailureIsFatal ==
    Len(Gets) > Len(fetched) =>
        /\ pc = "aborted"
        /\ err \in FetchErrors
        /\ Len(Gets) = i
        /\ Len(fetched) = i - 1
        /\ log[Len(log)].op = "GET"
        /\ events = ""
        /\ opens = 0
        /\ file = prior
        /\ ~ENABLED Next

\* The second of two requests failed after the first had given a row.
FetchFailureWitness ==
    /\ pc = "aborted"
    /\ err.line = 38
    /\ Len(years) = 2
    /\ i = 2
    /\ Len(Gets) = 2
    /\ Len(df.rows) = 1
    /\ prior.exists

(***************************************************************************)
(* C7: when a row that reaches the date conversion has a Datum that is no  *)
(* date of the form year-month-day, the run aborts with an error before    *)
(* any file is written: the row is not skipped, röda_dagar.ics is neither  *)
(* created nor modified.                                                   *)
(***************************************************************************)
BadDateIsFatal ==
    LET bad == \E k \in 1..Len(Expected) : ~DatumParses(Expected[k].Datum)
    IN  (PastFilter /\ pc # "convert" /\ bad) =>
            /\ pc = "aborted"
            /\ err.exc = "ValueError"
            /\ err.line = 62
            /\ events = ""
            /\ opens = 0
            /\ file = prior
            /\ ~ENABLED Next

\* The run aborted on 'not-a-date', the second of two rows.
BadDateWitness ==
    /\ pc = "aborted"
    /\ err.line = 62
    /\ prior.exists
    /\ Len(df.rows) = 2
    /\ df.rows[1].Datum = "2024-01-01"
    /\ df.rows[2].Datum = "not-a-date"

(***************************************************************************)
(* C8: with an empty list of years no request is made, the table is empty  *)
(* and the run ends well, with röda_dagar.ics holding the calendar of no   *)
(* event, BEGIN:VCALENDAR\nVERSION:2.0\nEND:VCALENDAR, whatever weekends   *)
(* is.                                                                     *)
(***************************************************************************)
EmptyYearsGiveEmptyCalendar ==
    years = <<>> =>
        /\ log = <<>>
        /\ df.rows = <<>>
        /\ pc # "aborted"
        /\ pc = "done" =>
            file = [exists  |-> TRUE,
                    content |-> "BEGIN:VCALENDAR\nVERSION:2.0\nEND:VCALENDAR"]

(***************************************************************************)
(* C9: download_dates requests one page per element of the years list,     *)
(* one at a time and in list order, and pauses 5 seconds after each        *)
(* request: a request never starts before the pause after the one before   *)
(* it is over.                                                             *)
(***************************************************************************)
PageOf(year) ==
    IF year = 2023 THEN "https://www.kalender.se/helgdagar/2023"
    ELSE "https://www.kalender.se/helgdagar/2024"

RequestsPaced ==
    /\ \A k \in 1..Len(log) :
        IF k % 2 = 1
        THEN /\ log[k].op = "GET"
             /\ (k + 1) \div 2 <= Len(years)
             /\ log[k].arg = PageOf(years[(k + 1) \div 2])
        ELSE /\ log[k].op = "sleep"
             /\ log[k].arg = 5
    /\ pc = "download" => Len(log) = 2 * (i - 1)
    /\ pc = "sleep" => Len(log) = 2 * i - 1
    /\ (pc \notin {"download", "sleep"} /\ Len(Gets) = Len(fetched)) =>
        /\ Len(Gets) = Len(years)
        /\ Len(log) = 2 * Len(years)

\* Two different years have been requested, in the order of the list, with
\* a pause after each.
RequestsPacedWitness ==
    /\ pc = "filter"
    /\ years = <<2024, 2023>>
    /\ Len(log) = 4
    /\ log[1].arg = "https://www.kalender.se/helgdagar/2024"
    /\ log[3].arg = "https://www.kalender.se/helgdagar/2023"

(***************************************************************************)
(* C10: when the fetch of a year fails, the error that ends the run and    *)
(* reaches the caller tells which year failed.                             *)
(***************************************************************************)
FetchErrorNamesYear ==
    (pc = "aborted" /\ err.line = 38) => Contains(err.msg, NatToStr(years[i]))

====
